---- MODULE Spec2Model ----
(***************************************************************************)
(* LionTabs (tab-group controller): the light-DOM children slotted as      *)
(* tabs and panels, the attributes and listeners the controller puts on    *)
(* them, the registry (__store), the committed index (__selectedIndex)     *)
(* and the first-update flag.                                              *)
(*                                                                         *)
(* LionSelectRich (rich select): its options, the committed and the active *)
(* index, the overlay and its listeners, the invoker element that mirrors  *)
(* the checked option, and the element's lifecycle.                        *)
(***************************************************************************)
EXTENDS Integers, Sequences, FiniteSets, TLC

\* Size of the pool of tab (trigger) elements the page may slot.
MaxTabs == 2
\* Size of the pool of panel elements the page may slot.
MaxPanels == 2
\* Cap on the number of keydown listeners one element accumulates.
MaxKeydown == 2
\* Largest number of options the select holds.
MaxOptions == 3

Buttons == 1..MaxTabs
Panels == 1..MaxPanels

\* uuid(): ten base-36 digits of Math.random().  The n calls of one rebuild
\* when Math.random() returns a different number to each: the i-th uid is i.
UidSamples(n) == {[i \in 1..n |-> i]}

\* The n calls of one rebuild when Math.random() returns the same number to
\* all of them (or numbers with the same first ten base-36 digits).
UidRepeats(n) == {[i \in 1..n |-> 1]}

\* Values a caller may assign to selectedIndex: in range and out of range.
AssignVals == -1..MaxTabs

RecognisedKeys == {"ArrowDown", "ArrowRight", "ArrowUp", "ArrowLeft", "Home", "End"}
OtherKeys == {"Tab", "Enter"}
Keys == RecognisedKeys \cup OtherKeys

VARIABLES
    tabs,           \* set of pool buttons that are children with slot="tab"
    panels,         \* set of pool panels that are children with slot="panel"
    disabled,       \* set of buttons carrying the disabled attribute (page-set)
    btn,            \* attributes and listeners of every pool button
    pnl,            \* attributes of every pool panel
    store,          \* this.__store, a sequence of entries
    hasStore,       \* FALSE while this.__store is undefined
    selectedIndex,  \* this.__selectedIndex
    firstUpdate,    \* this.__firstUpdate
    installed,      \* the slotchange listener of __setupSlots is attached
    slotPending,    \* the slotchange of the first render is queued
    focus,          \* the button holding focus, 0 when focus is elsewhere
    obs,            \* what the last step let an observer see
    \* LionSelectRich
    formElements,   \* this.formElements: the registered options, in order
    checkedIndex,   \* this.checkedIndex, Unset when no option is checked
    activeIndex,    \* this.activeIndex, Unset when no option is active
    ctrlDisabled,   \* this.disabled
    readOnly,       \* this.readOnly
    interactionMode,\* this.interactionMode
    opened,         \* this.opened: the overlay is shown
    invokerNode,    \* this._invokerNode: the child with slot="invoker"
    overlayCtrl,    \* this._overlayCtrl and the listeners on it and on the scroll target
    activeElement,  \* where focus is: "page", "invoker" or "listbox"
    lifecycle,      \* "connected", "updated" (first update done) or "disconnected"
    seen            \* what the last step of the select let an observer see

tabsVars == <<tabs, panels, disabled, btn, pnl, store, hasStore, selectedIndex,
              firstUpdate, installed, slotPending, focus, obs>>

selectVars == <<formElements, checkedIndex, activeIndex, ctrlDisabled, readOnly,
                interactionMode, opened, invokerNode, overlayCtrl, activeElement,
                lifecycle, seen>>

vars == <<tabs, panels, disabled, btn, pnl, store, hasStore, selectedIndex,
          firstUpdate, installed, slotPending, focus, obs,
          formElements, checkedIndex, activeIndex, ctrlDisabled, readOnly,
          interactionMode, opened, invokerNode, overlayCtrl, activeElement,
          lifecycle, seen>>

\* The template strings `button-${uid}` and `panel-${uid}`.
ButtonId(uid) == [prefix |-> "button-", uid |-> uid]

PanelId(uid) == [prefix |-> "panel-", uid |-> uid]

\* An id, aria-controls or aria-labelledby attribute that is not there.
NoAttr == [prefix |-> "none", uid |-> 0]

\* A freshly created element: no attribute, no listener.
FreshButton == [selected |-> "none", ariaSelected |-> "none", tabindex |-> "none",
                id |-> NoAttr, role |-> "none", ariaControls |-> NoAttr,
                click |-> <<>>, keyup |-> 0, keydown |-> 0]

FreshPanel == [selected |-> "none", id |-> NoAttr, role |-> "none",
               ariaLabelledby |-> NoAttr]

\* What a step let an observer see: the operation and its argument, the
\* number of 'selected-changed' events dispatched, the key event's
\* defaultPrevented after its keydown and keyup listeners, the console
\* warning and the uncaught exception of a rebuild, and the values of
\* selectedIndex seen after each of the "next" key presses in a row that
\* began at selectedIndex 0.
Seen(op, arg, key, notified, kd, ku, warned, threw, run) ==
    [op |-> op, arg |-> arg, key |-> key, notified |-> notified,
     keydownPrevented |-> kd, keyupPrevented |-> ku,
     warned |-> warned, threw |-> threw, run |-> run]

Quiet == Seen("none", 0, "none", 0, FALSE, FALSE, FALSE, FALSE, <<>>)

\* querySelectorAll / Array.from(children): the elements of S in document order.
RECURSIVE InDocumentOrder(_)
InDocumentOrder(S) ==
    IF S = {} THEN <<>>
    ELSE LET m == CHOOSE x \in S : \A y \in S : x <= y
         IN <<m>> \o InDocumentOrder(S \ {m})

\* Array.prototype.find over children, hits being the children the callback
\* accepts: the first of them in document order, 0 standing for undefined.
FindFirst(hits) ==
    IF hits = {} THEN 0 ELSE CHOOSE x \in hits : \A y \in hits : x <= y

\* The DOM the controller writes to: button and panel attributes, and focus.
\* D is a record [btn, pnl, focus].

setupPanel(D, p, uid) ==
    [D EXCEPT !.pnl[p].id = PanelId(uid), !.pnl[p].role = "tabpanel",
              !.pnl[p].ariaLabelledby = ButtonId(uid)]

selectPanel(D, p) == [D EXCEPT !.pnl[p].selected = "true"]

deselectPanel(D, p) == [D EXCEPT !.pnl[p].selected = "none"]

\* setupButton with aria-controls built from the button's own id.
setupButton_ControlsOwnId(D, b, uid, index) ==
    [D EXCEPT !.btn[b].id = ButtonId(uid), !.btn[b].role = "tab",
              !.btn[b].ariaControls = ButtonId(uid),
              !.btn[b].click = Append(@, index),
              !.btn[b].keyup = @ + 1,
              !.btn[b].keydown = @ + 1]

setupButton(D, b, uid, index) ==
    [D EXCEPT !.btn[b].id = ButtonId(uid), !.btn[b].role = "tab",
              !.btn[b].ariaControls = PanelId(uid),
              !.btn[b].click = Append(@, index),
              !.btn[b].keyup = @ + 1,
              !.btn[b].keydown = @ + 1]

\* Remove the first listener equal to h from a listener list.
RECURSIVE RemoveListener(_, _)
RemoveListener(ls, h) ==
    IF ls = <<>> THEN <<>>
    ELSE IF Head(ls) = h THEN Tail(ls)
    ELSE <<Head(ls)>> \o RemoveListener(Tail(ls), h)

\* The keydown listener is an arrow function created at the call: the one
\* passed to removeEventListener is a new function, so nothing is removed.
cleanButton(D, b, index) ==
    [D EXCEPT !.btn[b].id = NoAttr, !.btn[b].role = "none",
              !.btn[b].ariaControls = NoAttr,
              !.btn[b].click = RemoveListener(@, index),
              !.btn[b].keyup = IF @ > 0 THEN @ - 1 ELSE 0]

selectButton(D, b, first) ==
    [D EXCEPT !.focus = IF first THEN @ ELSE b,
              !.btn[b].selected = "true",
              !.btn[b].ariaSelected = "true",
              !.btn[b].tabindex = "0"]

deselectButton(D, b) ==
    [D EXCEPT !.btn[b].selected = "none",
              !.btn[b].ariaSelected = "false",
              !.btn[b].tabindex = "-1"]

TypeOK ==
    /\ tabs \subseteq Buttons
    /\ panels \subseteq Panels
    /\ disabled \subseteq Buttons
    /\ selectedIndex \in -1..MaxTabs
    /\ focus \in 0..MaxTabs
    /\ Len(store) <= MaxTabs

\* The state after the constructor ran (it assigns selectedIndex = 0 while
\* __store is undefined), with the children the page wrote in the markup.
Constructed ==
    /\ tabs \in {1..n : n \in 0..MaxTabs}
    /\ panels \in {1..n : n \in 0..MaxPanels}
    /\ btn = [b \in Buttons |-> FreshButton]
    /\ pnl = [p \in Panels |-> FreshPanel]
    /\ store = <<>>
    /\ hasStore = FALSE
    /\ selectedIndex = 0
    /\ firstUpdate = FALSE
    /\ installed = FALSE
    /\ slotPending = FALSE
    /\ focus = 0
    /\ obs = Quiet

\* checkedIndex / activeIndex when no option is checked / active (the show
\* handler tests checkedIndex != null).
Unset == -1

\* The options a page writes: with child elements or with text only, enabled
\* or disabled.
OptionSamples ==
    {[disabled |-> FALSE, labelNodes |-> 1],
     [disabled |-> FALSE, labelNodes |-> 0],
     [disabled |-> TRUE, labelNodes |-> 0]}

\* The index of the first option that is not disabled, Unset when none is.
FirstEnabled(els) ==
    IF \E i \in 1..Len(els) : ~els[i].disabled
    THEN (CHOOSE i \in 1..Len(els) :
              ~els[i].disabled /\ \A j \in 1..(i - 1) : els[j].disabled) - 1
    ELSE Unset

\* What the invoker shows for no selected element.
EmptyContent == [kind |-> "empty", of |-> 0]

\* The invoker element as the slot function or the page created it
\* (selectedElement null: 0), or no such child.
FreshInvoker(present) ==
    [present |-> present, disabled |-> FALSE, readOnly |-> FALSE,
     requested |-> FALSE, selectedElement |-> 0, content |-> EmptyContent,
     hasId |-> FALSE, ariaHaspopup |-> "none", click |-> 0, blur |-> 0]

\* The overlay controller with no listener of the select on it, or none.
FreshOverlay(present) ==
    [present |-> present, show |-> 0, hide |-> 0, keydown |-> 0]

\* What a step of the select let an observer see: the operation, the key of
\* a key event and whether its default was prevented, and whether the
\* handler ended in an uncaught exception.
SelectSeen(op, key, prevented, threw) ==
    [op |-> op, key |-> key, prevented |-> prevented, threw |-> threw]

\* The select after its constructor and connectedCallback, its options
\* registered (the first enabled one checked and active), before the first
\* update; the invoker and the overlay controller there or not.
SelectConnected(els, mode, withInvoker, withOverlay) ==
    /\ formElements = els
    /\ checkedIndex = FirstEnabled(els)
    /\ activeIndex = FirstEnabled(els)
    /\ ctrlDisabled = FALSE
    /\ readOnly = FALSE
    /\ interactionMode = mode
    /\ opened = FALSE
    /\ invokerNode = FreshInvoker(withInvoker)
    /\ overlayCtrl = FreshOverlay(withOverlay)
    /\ activeElement = "page"
    /\ lifecycle = "connected"
    /\ seen = SelectSeen("none", "none", FALSE, FALSE)

\* A select without options that nothing touches.
SelectIdle == SelectConnected(<<>>, "mac", TRUE, TRUE)

\* No tab child carries the disabled attribute.
Init == Constructed /\ disabled = {} /\ SelectIdle

\* The page may have written the disabled attribute on any tab child.
InitDisabled == Constructed /\ disabled \in SUBSET Buttons /\ SelectIdle

\* One iteration after another of the forEach in __setupStore.  R is
\* [D, store, threw]; position i is 1-based, the entry's index is i - 1.
\* panels[index] is undefined past the last panel and setupPanel then reads
\* a property of undefined: the TypeError ends the loop and the handler.
RECURSIVE SetupEntries(_, _, _, _, _)
SetupEntries(R, buttons, panelSeq, uids, i) ==
    IF i > Len(buttons) THEN R
    ELSE IF i > Len(panelSeq) THEN [R EXCEPT !.threw = TRUE]
    ELSE LET b == buttons[i]
             p == panelSeq[i]
             entry == [uid |-> uids[i], button |-> b, panel |-> p, index |-> i - 1]
             D1 == setupPanel(R.D, p, entry.uid)
             D2 == setupButton(D1, b, entry.uid, entry.index)
             D3 == deselectPanel(D2, p)
             D4 == deselectButton(D3, b)
         IN SetupEntries([R EXCEPT !.D = D4, !.store = Append(@, entry)],
                         buttons, panelSeq, uids, i + 1)

\* __setupStore: returns [D, store, threw, warned].
setupStore(D, tabSet, panelSet, uids) ==
    LET buttons == InDocumentOrder(tabSet)
        panelSeq == InDocumentOrder(panelSet)
        R == SetupEntries([D |-> D, store |-> <<>>, threw |-> FALSE],
                          buttons, panelSeq, uids, 1)
    IN [D |-> R.D, store |-> R.store, threw |-> R.threw,
        warned |-> Len(buttons) # Len(panelSeq)]

RECURSIVE CleanEntries(_, _, _)
CleanEntries(D, st, i) ==
    IF i > Len(st) THEN D
    ELSE CleanEntries(cleanButton(D, st[i].button, st[i].index), st, i + 1)

\* __cleanStore
cleanStore(D, st, has) == IF ~has THEN D ELSE CleanEntries(D, st, 1)

\* this.__store && this.__store[index] is an entry
HasEntry(st, has, index) == has /\ index \in 0..(Len(st) - 1)

\* __updateSelected
updateSelected(D, st, has, index, first, tabSet, panelSet) ==
    IF ~HasEntry(st, has, index) THEN D
    ELSE LET previousButton == FindFirst({b \in tabSet : D.btn[b].selected # "none"})
             previousPanel == FindFirst({p \in panelSet : D.pnl[p].selected # "none"})
             D1 == IF previousButton # 0 THEN deselectButton(D, previousButton) ELSE D
             D2 == IF previousPanel # 0 THEN deselectPanel(D1, previousPanel) ELSE D1
             current == st[index + 1]
             D3 == selectButton(D2, current.button, first)
         IN selectPanel(D3, current.panel)

\* set selectedIndex(value).  C is the controller as a handler sees and
\* leaves it: [D, selectedIndex, firstUpdate, notified, prevented].
setSelectedIndex(C, value) ==
    LET C1 == [C EXCEPT !.firstUpdate = FALSE, !.selectedIndex = value]
    IN [C1 EXCEPT !.D = updateSelected(C1.D, store, hasStore, C1.selectedIndex,
                                       C1.firstUpdate, tabs, panels),
                  !.notified = @ + 1]

\* get _pairCount
pairCount == Len(store)

\* __handleButtonKeydown with the wrap test of the "next" keys written > for
\* >=: the press on the last index steps past it.
handleButtonKeydown_NoWrap(C, key) ==
    CASE key \in {"ArrowDown", "ArrowRight"} ->
           IF C.selectedIndex + 1 > pairCount
           THEN setSelectedIndex(C, 0)
           ELSE setSelectedIndex(C, C.selectedIndex + 1)
      [] key \in {"ArrowUp", "ArrowLeft"} ->
           LET C1 == [C EXCEPT !.prevented = TRUE]
           IN IF C.selectedIndex <= 0
              THEN setSelectedIndex(C1, pairCount - 1)
              ELSE setSelectedIndex(C1, C.selectedIndex - 1)
      [] key = "Home" -> setSelectedIndex([C EXCEPT !.prevented = TRUE], 0)
      [] key = "End" -> setSelectedIndex([C EXCEPT !.prevented = TRUE], pairCount - 1)
      [] OTHER -> C

\* __handleButtonKeydown with End assigning _pairCount for _pairCount - 1.
handleButtonKeydown_EndPastLast(C, key) ==
    CASE key \in {"ArrowDown", "ArrowRight"} ->
           IF C.selectedIndex + 1 >= pairCount
           THEN setSelectedIndex(C, 0)
           ELSE setSelectedIndex(C, C.selectedIndex + 1)
      [] key \in {"ArrowUp", "ArrowLeft"} ->
           LET C1 == [C EXCEPT !.prevented = TRUE]
           IN IF C.selectedIndex <= 0
              THEN setSelectedIndex(C1, pairCount - 1)
              ELSE setSelectedIndex(C1, C.selectedIndex - 1)
      [] key = "Home" -> setSelectedIndex([C EXCEPT !.prevented = TRUE], 0)
      [] key = "End" -> setSelectedIndex([C EXCEPT !.prevented = TRUE], pairCount)
      [] OTHER -> C

\* __handleButtonKeydown (attached as the keyup listener)
handleButtonKeydown(C, key) ==
    CASE key \in {"ArrowDown", "ArrowRight"} ->
           IF C.selectedIndex + 1 >= pairCount
           THEN setSelectedIndex(C, 0)
           ELSE setSelectedIndex(C, C.selectedIndex + 1)
      [] key \in {"ArrowUp", "ArrowLeft"} ->
           LET C1 == [C EXCEPT !.prevented = TRUE]
           IN IF C.selectedIndex <= 0
              THEN setSelectedIndex(C1, pairCount - 1)
              ELSE setSelectedIndex(C1, C.selectedIndex - 1)
      [] key = "Home" -> setSelectedIndex([C EXCEPT !.prevented = TRUE], 0)
      [] key = "End" -> setSelectedIndex([C EXCEPT !.prevented = TRUE], pairCount - 1)
      [] OTHER -> C

\* The controller as the next handler finds it.
Controller ==
    [D |-> [btn |-> btn, pnl |-> pnl, focus |-> focus],
     selectedIndex |-> selectedIndex, firstUpdate |-> firstUpdate,
     notified |-> 0, prevented |-> FALSE]

\* Every click listener of a button, in the order they were added; each is
\* the closure of __createButtonClickHandler(index).
RECURSIVE FireClick(_, _)
FireClick(C, ls) ==
    IF ls = <<>> THEN C
    ELSE FireClick(setSelectedIndex(C, Head(ls)), Tail(ls))

\* Every keyup listener of a button: n bound copies of __handleButtonKeydown.
RECURSIVE FireKeyup(_, _, _)
FireKeyup(C, key, n) ==
    IF n = 0 THEN C ELSE FireKeyup(handleButtonKeydown(C, key), key, n - 1)

\* Write a handler's result back.
Commit(C) ==
    /\ btn' = C.D.btn
    /\ pnl' = C.D.pnl
    /\ focus' = C.D.focus
    /\ selectedIndex' = C.selectedIndex
    /\ firstUpdate' = C.firstUpdate

\* element.selectedIndex = v, by the page or by the selected-index attribute.
Assign(v) ==
    /\ ~slotPending
    /\ LET C == setSelectedIndex(Controller, v)
       IN /\ Commit(C)
          /\ obs' = Seen("assign", v, "none", C.notified, FALSE, FALSE, FALSE, FALSE, <<>>)
    /\ UNCHANGED <<tabs, panels, disabled, store, hasStore, installed, slotPending>>
    /\ UNCHANGED selectVars

\* firstUpdated and __setupSlots.  The first render assigns the slotted
\* children, which queues a slotchange when there are tab children.
FirstUpdated ==
    /\ ~installed
    /\ installed' = TRUE
    /\ firstUpdate' = TRUE
    /\ slotPending' = (tabs # {})
    /\ obs' = Seen("firstUpdated", 0, "none", 0, FALSE, FALSE, FALSE, FALSE, <<>>)
    /\ UNCHANGED <<tabs, panels, disabled, btn, pnl, store, hasStore,
                   selectedIndex, focus>>
    /\ UNCHANGED selectVars

\* handleSlotChange of __setupSlots, run with the tab children being tabSet.
handleSlotChange(tabSet, focused, uids) ==
    LET D0 == [btn |-> btn, pnl |-> pnl, focus |-> focused]
        D1 == cleanStore(D0, store, hasStore)
        S == setupStore(D1, tabSet, panels, uids)
        D2 == IF S.threw THEN S.D
              ELSE updateSelected(S.D, S.store, TRUE, selectedIndex, firstUpdate,
                                  tabSet, panels)
    IN /\ btn' = D2.btn
       /\ pnl' = D2.pnl
       /\ focus' = D2.focus
       /\ store' = S.store
       /\ hasStore' = TRUE
       /\ obs' = Seen("slotchange", 0, "none", 0, FALSE, FALSE, S.warned, S.threw,
                    <<>>)

\* The slotchange queued by the first render, uuid() returning one of samples.
InitialSlotChangeFrom(samples) ==
    /\ slotPending
    /\ slotPending' = FALSE
    /\ \E uids \in samples : handleSlotChange(tabs, focus, uids)
    /\ UNCHANGED <<tabs, panels, disabled, selectedIndex, firstUpdate, installed>>
    /\ UNCHANGED selectVars

InitialSlotChange == InitialSlotChangeFrom(UidSamples(Cardinality(tabs)))

\* The page appends the tab child b or removes the last tab child b (a
\* removed element loses focus); the slotchange this causes is delivered
\* before any other input.
TabsChangedFrom(b, samples) ==
    /\ installed /\ ~slotPending
    /\ b \in {Cardinality(tabs), Cardinality(tabs) + 1}
    /\ LET tabSet == IF b \in tabs THEN tabs \ {b} ELSE tabs \cup {b}
           blur == IF focus \in tabSet THEN focus ELSE 0
       IN /\ \A x \in tabSet : btn[x].keydown < MaxKeydown
          /\ tabs' = tabSet
          /\ \E uids \in samples : handleSlotChange(tabSet, blur, uids)
    /\ UNCHANGED <<panels, disabled, selectedIndex, firstUpdate, installed, slotPending>>
    /\ UNCHANGED selectVars

\* The number of tab children once b is appended or removed.
TabCountAfter(b) == IF b \in tabs THEN Cardinality(tabs) - 1 ELSE Cardinality(tabs) + 1

TabsChanged(b) == TabsChangedFrom(b, UidSamples(TabCountAfter(b)))

\* The page appends the panel child p or removes the last panel child p:
\* no listener is on the panel slot.
PanelsChanged(p) ==
    /\ installed /\ ~slotPending
    /\ p \in {Cardinality(panels), Cardinality(panels) + 1}
    /\ panels' = IF p \in panels THEN panels \ {p} ELSE panels \cup {p}
    /\ obs' = Seen("panels", 0, "none", 0, FALSE, FALSE, FALSE, FALSE, <<>>)
    /\ UNCHANGED <<tabs, disabled, btn, pnl, store, hasStore, selectedIndex,
                   firstUpdate, installed, slotPending, focus>>
    /\ UNCHANGED selectVars

\* A click event on the tab child b (the browser dispatches none to a
\* disabled control).
Click(b) ==
    /\ ~slotPending
    /\ b \in tabs
    /\ b \notin disabled
    /\ LET C == FireClick(Controller, btn[b].click)
       IN /\ Commit(C)
          /\ obs' = Seen("click", b, "none", C.notified, FALSE, FALSE, FALSE, FALSE, <<>>)
    /\ UNCHANGED <<tabs, panels, disabled, store, hasStore, installed, slotPending>>
    /\ UNCHANGED selectVars

NextKeys == {"ArrowRight", "ArrowDown"}

\* The row of "next" presses an observer has counted so far, after one more
\* key on the tab child b: a row begins with a press at selectedIndex 0,
\* grows with every further "next" press up to MaxTabs of them, and ends
\* with any other step.  Only a press that a keyup listener handles counts.
NextRun(b, key, after) ==
    IF key \notin NextKeys \/ btn[b].keyup = 0 THEN <<>>
    ELSE IF obs.run # <<>> /\ Len(obs.run) < MaxTabs THEN Append(obs.run, after)
    ELSE IF selectedIndex = 0 THEN <<after>>
    ELSE <<>>

\* A key pressed and released while the tab child b has focus: the keydown
\* event, then the keyup event, both with b as target.
KeyPress(b, key) ==
    /\ ~slotPending
    /\ b \in tabs
    /\ focus = b
    /\ LET C == FireKeyup(Controller, key, btn[b].keyup)
       IN /\ Commit(C)
          /\ obs' = Seen("key", 0, key, C.notified, btn[b].keydown > 0, C.prevented,
                         FALSE, FALSE, NextRun(b, key, C.selectedIndex))
    /\ UNCHANGED <<tabs, panels, disabled, store, hasStore, installed, slotPending>>
    /\ UNCHANGED selectVars

Next ==
    \/ \E v \in AssignVals : Assign(v)
    \/ FirstUpdated
    \/ InitialSlotChange
    \/ \E b \in Buttons : TabsChanged(b)
    \/ \E p \in Panels : PanelsChanged(p)
    \/ \E b \in Buttons : Click(b)
    \/ \E b \in Buttons, key \in Keys : KeyPress(b, key)

Spec == Init /\ [][Next]_vars

SpecDisabled == InitDisabled /\ [][Next]_vars

\* The rebuilds in which Math.random() repeats itself.
InitialSlotChangeRepeat == InitialSlotChangeFrom(UidRepeats(Cardinality(tabs)))

TabsChangedRepeat(b) == TabsChangedFrom(b, UidRepeats(TabCountAfter(b)))

NextUid ==
    \/ Next
    \/ InitialSlotChangeRepeat
    \/ \E b \in Buttons : TabsChangedRepeat(b)

\* The tab group with every outcome of uuid().
SpecUid == Init /\ [][NextUid]_vars

(***************************************************************************)
(* LionSelectRich and LionSelectInvoker.                                   *)
(***************************************************************************)

InteractionModes == {"mac", "windows/linux"}

\* Every sequence of at most MaxOptions options.
OptionSeqs == UNION {[1..n -> OptionSamples] : n \in 0..MaxOptions}

\* this.formElements[index]: the position of the option, 0 for undefined.
ElementAt(index) ==
    IF index # Unset /\ index + 1 \in 1..Len(formElements) THEN index + 1 ELSE 0

\* LionSelectInvoker._contentTemplate: clones of the selected element's
\* descendants when it has some, else its text, else nothing.
contentTemplate(selectedElement) ==
    IF selectedElement # 0
    THEN IF formElements[selectedElement].labelNodes > 0
         THEN [kind |-> "nodes", of |-> selectedElement]
         ELSE [kind |-> "text", of |-> selectedElement]
    ELSE EmptyContent

\* The invoker with selectedElement assigned, and rendered again.
setSelectedElement(inv, el) ==
    [inv EXCEPT !.selectedElement = el, !.content = contentTemplate(el)]

\* __syncInvokerElement reading this.activeIndex for this.checkedIndex.
syncInvokerElement_Active(inv, index) ==
    IF inv.present THEN setSelectedElement(inv, ElementAt(activeIndex)) ELSE inv

\* __syncInvokerElement
syncInvokerElement(inv, index) ==
    IF inv.present THEN setSelectedElement(inv, ElementAt(index)) ELSE inv

\* __toggleInvokerDisabled assigning this.disabled to both properties.
toggleInvokerDisabled_BothDisabled(inv, d, r) ==
    IF inv.present THEN [inv EXCEPT !.disabled = d, !.readOnly = d] ELSE inv

\* __toggleInvokerDisabled
toggleInvokerDisabled(inv, d, r) ==
    IF inv.present THEN [inv EXCEPT !.disabled = d, !.readOnly = r] ELSE inv

\* The for loop of __getNextEnabledOption, from i on.
RECURSIVE NextEnabledFrom(_, _)
NextEnabledFrom(i, currentIndex) ==
    IF ~(i < Len(formElements)) THEN currentIndex
    ELSE IF ~formElements[i + 1].disabled THEN i
    ELSE NextEnabledFrom(i + 1, currentIndex)

\* __getNextEnabledOption(currentIndex), offset 1; an unset index plus the
\* offset is NaN, the loop does not run.
getNextEnabledOption(currentIndex) ==
    IF currentIndex = Unset THEN currentIndex
    ELSE NextEnabledFrom(currentIndex + 1, currentIndex)

\* The for loop of __getPreviousEnabledOption, from i down.
RECURSIVE PreviousEnabledFrom(_, _)
PreviousEnabledFrom(i, currentIndex) ==
    IF ~(i >= 0) THEN currentIndex
    ELSE IF i < Len(formElements) /\ ~formElements[i + 1].disabled THEN i
    ELSE PreviousEnabledFrom(i - 1, currentIndex)

\* __getPreviousEnabledOption(currentIndex), offset -1
getPreviousEnabledOption(currentIndex) ==
    IF currentIndex = Unset THEN currentIndex
    ELSE PreviousEnabledFrom(currentIndex - 1, currentIndex)

\* The select as a handler reads and leaves it.
SelectState ==
    [checkedIndex |-> checkedIndex, activeIndex |-> activeIndex, opened |-> opened,
     invokerNode |-> invokerNode, activeElement |-> activeElement,
     prevented |-> FALSE, threw |-> FALSE]

\* __overlayOnShow
overlayOnShow(S) ==
    [S EXCEPT !.activeIndex = IF S.checkedIndex # Unset THEN S.checkedIndex ELSE @,
              !.activeElement = "listbox"]

\* __overlayOnHide focusing the listbox node for the invoker.
overlayOnHide_FocusListbox(S) ==
    IF S.invokerNode.present THEN [S EXCEPT !.activeElement = "listbox"]
    ELSE [S EXCEPT !.threw = TRUE]

\* __overlayOnHide: this._invokerNode.focus()
overlayOnHide(S) ==
    IF S.invokerNode.present THEN [S EXCEPT !.activeElement = "invoker"]
    ELSE [S EXCEPT !.threw = TRUE]

\* this.opened = v: the overlay controller shows or hides and dispatches
\* 'show' or 'hide' to the listeners on it.
setOpened(S, v) ==
    IF S.opened = v THEN S
    ELSE LET S1 == [S EXCEPT !.opened = v]
         IN IF v THEN (IF overlayCtrl.show > 0 THEN overlayOnShow(S1) ELSE S1)
            ELSE (IF overlayCtrl.hide > 0 THEN overlayOnHide(S1) ELSE S1)

\* this.checkedIndex = v: an index that is out of range or of a disabled
\* option is rejected; a commit writes modelValue, and _requestUpdate
\* ('modelValue') syncs the invoker.
setCheckedIndex(S, v) ==
    IF ElementAt(v) = 0 \/ formElements[ElementAt(v)].disabled THEN S
    ELSE [S EXCEPT !.checkedIndex = v,
                   !.invokerNode = syncInvokerElement(@, v)]

\* __onKeyUp without the interactionMode test: the keys always open.
onKeyUp_AlwaysOpens(S, key) ==
    IF ctrlDisabled THEN S
    ELSE IF S.opened THEN S
    ELSE CASE key = "ArrowUp" -> setOpened([S EXCEPT !.prevented = TRUE], TRUE)
           [] key = "ArrowDown" -> setOpened([S EXCEPT !.prevented = TRUE], TRUE)
           [] OTHER -> S

\* __onKeyUp with ArrowDown calling __getPreviousEnabledOption as ArrowUp does.
onKeyUp_DownIsPrevious(S, key) ==
    IF ctrlDisabled THEN S
    ELSE IF S.opened THEN S
    ELSE CASE key \in {"ArrowUp", "ArrowDown"} ->
                LET S1 == [S EXCEPT !.prevented = TRUE]
                IN IF interactionMode = "mac" THEN setOpened(S1, TRUE)
                   ELSE setCheckedIndex(S1, getPreviousEnabledOption(S1.checkedIndex))
           [] OTHER -> S

\* __onKeyUp without the early return for a disabled select.
onKeyUp_DisabledNotTested(S, key) ==
    IF S.opened THEN S
    ELSE CASE key \in {"ArrowUp", "ArrowDown"} ->
                LET S1 == [S EXCEPT !.prevented = TRUE]
                IN IF interactionMode = "mac" THEN setOpened(S1, TRUE)
                   ELSE IF key = "ArrowUp"
                        THEN setCheckedIndex(S1, getPreviousEnabledOption(S1.checkedIndex))
                        ELSE setCheckedIndex(S1, getNextEnabledOption(S1.checkedIndex))
           [] OTHER -> S

\* __onKeyUp
onKeyUp(S, key) ==
    IF ctrlDisabled THEN S
    ELSE IF S.opened THEN S
    ELSE CASE key = "ArrowUp" ->
                LET S1 == [S EXCEPT !.prevented = TRUE]
                IN IF interactionMode = "mac" THEN setOpened(S1, TRUE)
                   ELSE setCheckedIndex(S1, getPreviousEnabledOption(S1.checkedIndex))
           [] key = "ArrowDown" ->
                LET S1 == [S EXCEPT !.prevented = TRUE]
                IN IF interactionMode = "mac" THEN setOpened(S1, TRUE)
                   ELSE setCheckedIndex(S1, getNextEnabledOption(S1.checkedIndex))
           [] OTHER -> S

\* __invokerOnClick of __setupInvokerNodeEventListener
invokerOnClick(S) ==
    IF ~ctrlDisabled /\ ~readOnly THEN setOpened(S, ~S.opened) ELSE S

\* invoker.makeRequestToBeDisabled(): the invoker is disabled for as long as
\* the request stands.
makeRequestToBeDisabled(inv) == [inv EXCEPT !.requested = TRUE, !.disabled = TRUE]

\* invoker.retractRequestToBeDisabled(): the invoker is as disabled as it
\* was last set to be.
retractRequestToBeDisabled(inv) == [inv EXCEPT !.requested = FALSE]

\* The disabled branch of updated(changedProps); a call on the missing
\* invoker is a call on undefined.
updated(S, disabledChanged, d) ==
    IF ~disabledChanged THEN S
    ELSE IF ~S.invokerNode.present THEN [S EXCEPT !.threw = TRUE]
    ELSE IF d THEN [S EXCEPT !.invokerNode = makeRequestToBeDisabled(@)]
    ELSE [S EXCEPT !.invokerNode = retractRequestToBeDisabled(@)]

\* Write a handler's result back.
CommitSelect(S) ==
    /\ checkedIndex' = S.checkedIndex
    /\ activeIndex' = S.activeIndex
    /\ opened' = S.opened
    /\ invokerNode' = S.invokerNode
    /\ activeElement' = S.activeElement

\* __setupOverlay: [ov, threw]; without an overlay controller the first
\* addEventListener is a call on undefined.
setupOverlay(ov) ==
    IF ~ov.present THEN [ov |-> ov, threw |-> TRUE]
    ELSE [ov |-> [ov EXCEPT !.show = @ + 1, !.hide = @ + 1, !.keydown = @ + 1],
          threw |-> FALSE]

\* __teardownOverlay: [ov, threw]; the keydown listener is removed with
\* __overlayOnHide as the handler, which is not the one that was added.
teardownOverlay(ov) ==
    IF ~ov.present THEN [ov |-> ov, threw |-> TRUE]
    ELSE [ov |-> [ov EXCEPT !.show = IF @ > 0 THEN @ - 1 ELSE 0,
                            !.hide = IF @ > 0 THEN @ - 1 ELSE 0],
          threw |-> FALSE]

\* __setupInvokerNode and __setupInvokerNodeEventListener: [inv, threw]
setupInvokerNode(inv) ==
    IF ~inv.present THEN [inv |-> inv, threw |-> TRUE]
    ELSE [inv |-> [inv EXCEPT !.hasId = TRUE, !.ariaHaspopup = "listbox",
                              !.click = @ + 1, !.blur = @ + 1],
          threw |-> FALSE]

\* __teardownInvokerNode: [inv, threw]
teardownInvokerNode(inv) ==
    IF ~inv.present THEN [inv |-> inv, threw |-> TRUE]
    ELSE [inv |-> [inv EXCEPT !.click = IF @ > 0 THEN @ - 1 ELSE 0,
                              !.blur = IF @ > 0 THEN @ - 1 ELSE 0],
          threw |-> FALSE]

\* firstUpdated, then updated of the same update (changedProps holds
\* disabled, which the constructor initialised).
SelectFirstUpdated ==
    /\ lifecycle = "connected"
    /\ lifecycle' = "updated"
    /\ LET O == setupOverlay(overlayCtrl)
           I == IF O.threw THEN [inv |-> invokerNode, threw |-> TRUE]
                ELSE setupInvokerNode(invokerNode)
           inv1 == IF I.threw THEN I.inv
                   ELSE toggleInvokerDisabled(
                            setSelectedElement(I.inv, ElementAt(checkedIndex)),
                            ctrlDisabled, readOnly)
           U == IF I.threw THEN [SelectState EXCEPT !.threw = TRUE]
                ELSE updated([SelectState EXCEPT !.invokerNode = inv1], TRUE,
                             ctrlDisabled)
       IN /\ overlayCtrl' = O.ov
          /\ invokerNode' = U.invokerNode
          /\ seen' = SelectSeen("firstUpdated", "none", FALSE, U.threw)
    /\ UNCHANGED <<formElements, checkedIndex, activeIndex, ctrlDisabled, readOnly,
                   interactionMode, opened, activeElement>>
    /\ UNCHANGED tabsVars

\* disconnectedCallback
SelectDisconnected ==
    /\ lifecycle = "updated"
    /\ lifecycle' = "disconnected"
    /\ LET O == teardownOverlay(overlayCtrl)
           I == IF O.threw THEN [inv |-> invokerNode, threw |-> TRUE]
                ELSE teardownInvokerNode(invokerNode)
       IN /\ overlayCtrl' = O.ov
          /\ invokerNode' = I.inv
          /\ seen' = SelectSeen("disconnected", "none", FALSE, I.threw)
    /\ UNCHANGED <<formElements, checkedIndex, activeIndex, ctrlDisabled, readOnly,
                   interactionMode, opened, activeElement>>
    /\ UNCHANGED tabsVars

\* element.disabled = v: the setter stores v and calls _requestUpdate; once
\* the first update is done the update it requests runs updated.
SetDisabled(v) ==
    /\ ctrlDisabled' = v
    /\ LET S1 == [SelectState EXCEPT
                      !.invokerNode = toggleInvokerDisabled(@, v, readOnly)]
           S2 == IF lifecycle = "connected" THEN S1
                 ELSE updated(S1, v # ctrlDisabled, v)
       IN /\ invokerNode' = S2.invokerNode
          /\ seen' = SelectSeen("disabled", "none", FALSE, S2.threw)
    /\ UNCHANGED <<formElements, checkedIndex, activeIndex, readOnly, interactionMode,
                   opened, overlayCtrl, activeElement, lifecycle>>
    /\ UNCHANGED tabsVars

\* element.readOnly = v
SetReadOnly(v) ==
    /\ readOnly' = v
    /\ invokerNode' = toggleInvokerDisabled(invokerNode, ctrlDisabled, v)
    /\ seen' = SelectSeen("readOnly", "none", FALSE, FALSE)
    /\ UNCHANGED <<formElements, checkedIndex, activeIndex, ctrlDisabled,
                   interactionMode, opened, overlayCtrl, activeElement, lifecycle>>
    /\ UNCHANGED tabsVars

\* element.checkedIndex = i, by the page or by a click on option i.
SetChecked(i) ==
    /\ lifecycle # "disconnected"
    /\ LET S == setCheckedIndex(SelectState, i)
       IN /\ CommitSelect(S)
          /\ seen' = SelectSeen("checked", "none", FALSE, S.threw)
    /\ UNCHANGED <<formElements, ctrlDisabled, readOnly, interactionMode,
                   overlayCtrl, lifecycle>>
    /\ UNCHANGED tabsVars

\* The checked option is unchecked: no option is checked, modelValue is
\* written and _requestUpdate('modelValue') syncs the invoker.
Uncheck ==
    /\ lifecycle # "disconnected"
    /\ checkedIndex # Unset
    /\ checkedIndex' = Unset
    /\ invokerNode' = syncInvokerElement(invokerNode, Unset)
    /\ seen' = SelectSeen("unchecked", "none", FALSE, FALSE)
    /\ UNCHANGED <<formElements, activeIndex, ctrlDisabled, readOnly, interactionMode,
                   opened, overlayCtrl, activeElement, lifecycle>>
    /\ UNCHANGED tabsVars

SelectKeys == {"ArrowUp", "ArrowDown", "Enter"}

\* A keyup event on the select.
SelectKeyUp(key) ==
    /\ lifecycle = "updated"
    /\ LET S == onKeyUp(SelectState, key)
       IN /\ CommitSelect(S)
          /\ seen' = SelectSeen("key", key, S.prevented, S.threw)
    /\ UNCHANGED <<formElements, ctrlDisabled, readOnly, interactionMode,
                   overlayCtrl, lifecycle>>
    /\ UNCHANGED tabsVars

\* A click event on the invoker.
InvokerClick ==
    /\ lifecycle = "updated"
    /\ invokerNode.present
    /\ invokerNode.click > 0
    /\ LET S == invokerOnClick(SelectState)
       IN /\ CommitSelect(S)
          /\ seen' = SelectSeen("click", "none", FALSE, S.threw)
    /\ UNCHANGED <<formElements, ctrlDisabled, readOnly, interactionMode,
                   overlayCtrl, lifecycle>>
    /\ UNCHANGED tabsVars

\* toggle(), and the overlay closing on Escape or an outside click.
SelectToggle ==
    /\ lifecycle = "updated"
    /\ overlayCtrl.present
    /\ LET S == setOpened(SelectState, ~opened)
       IN /\ CommitSelect(S)
          /\ seen' = SelectSeen("toggle", "none", FALSE, S.threw)
    /\ UNCHANGED <<formElements, ctrlDisabled, readOnly, interactionMode,
                   overlayCtrl, lifecycle>>
    /\ UNCHANGED tabsVars

NextSelect ==
    \/ SelectFirstUpdated
    \/ SelectDisconnected
    \/ \E v \in BOOLEAN : SetDisabled(v)
    \/ \E v \in BOOLEAN : SetReadOnly(v)
    \/ \E i \in -1..MaxOptions : SetChecked(i)
    \/ Uncheck
    \/ \E key \in SelectKeys : SelectKeyUp(key)
    \/ InvokerClick
    \/ SelectToggle

\* No tab group on the page.
TabsIdle == Constructed /\ tabs = {} /\ panels = {} /\ disabled = {}

\* A select with its invoker and its overlay controller.
InitSelect ==
    /\ TabsIdle
    /\ \E els \in OptionSeqs, mode \in InteractionModes :
           SelectConnected(els, mode, TRUE, TRUE)

\* A select whose invoker or overlay controller may be missing.
InitSelectBare ==
    /\ TabsIdle
    /\ \E els \in OptionSeqs, mode \in InteractionModes, i \in BOOLEAN, o \in BOOLEAN :
           SelectConnected(els, mode, i, o)

SpecSelect == InitSelect /\ [][NextSelect]_vars

SpecSelectBare == InitSelectBare /\ [][NextSelect]_vars

(***************************************************************************)
(* What the claims speak about.                                            *)
(***************************************************************************)

\* The button registered at index i (0-based), 0 when there is none.
ButtonAt(i) == IF HasEntry(store, hasStore, i) THEN store[i + 1].button ELSE 0

PanelAt(i) == IF HasEntry(store, hasStore, i) THEN store[i + 1].panel ELSE 0

Registered(b) == \E i \in 1..Len(store) : store[i].button = b

RegisteredPanel(p) == \E i \in 1..Len(store) : store[i].panel = p

\* The tab children that carry selected and aria-selected="true".
SelectedTabs == {b \in tabs : btn[b].selected # "none" /\ btn[b].ariaSelected = "true"}

SelectedPanels == {p \in panels : pnl[p].selected # "none"}

\* The commit attributes of trigger b, the button attributes being B.
CommittedIn(B, b) ==
    B[b].selected # "none" /\ B[b].ariaSelected = "true" /\ B[b].tabindex = "0"

Committed(b) == CommittedIn(btn, b)

\* None of the commit attributes, and no focus, focus being on f.
UncommittedIn(B, f, b) ==
    /\ B[b].selected = "none"
    /\ B[b].ariaSelected # "true"
    /\ B[b].tabindex # "0"
    /\ f # b

\* The registry is valid: it pairs every tab child with every panel child.
ValidRegistry ==
    /\ hasStore
    /\ Len(store) = Cardinality(tabs)
    /\ Len(store) = Cardinality(panels)

\* C1: once a valid registry holds at least one pair, exactly one tab child
\* carries selected with aria-selected="true" and exactly one panel child
\* carries selected.
C1_ExactlyOneSelected ==
    (ValidRegistry /\ Len(store) >= 1) =>
        /\ Cardinality(SelectedTabs) = 1
        /\ Cardinality(SelectedPanels) = 1

\* C2 (tabs): once the registry holds at least one pair, selectedIndex is
\* within [0, registry.length).
C2_SelectedIndexInRange ==
    (hasStore /\ Len(store) >= 1) => selectedIndex \in 0..(Len(store) - 1)

\* C3: an assignment of an index outside [0, number of registered pairs)
\* leaves selectedIndex and every tab and panel attribute as they were and
\* dispatches no 'selected-changed'.
C3_OutOfRangeRejected ==
    [][(obs'.op = "assign" /\ hasStore /\ ~HasEntry(store, hasStore, obs'.arg)) =>
           /\ selectedIndex' = selectedIndex
           /\ btn' = btn
           /\ pnl' = pnl
           /\ obs'.notified = 0]_vars

\* C4 (tabs): a commit request for an index whose entry is disabled, by
\* assignment or by a click on that entry, leaves selectedIndex as it was.
C4_DisabledTargetRejected ==
    [][/\ (obs'.op = "assign" /\ ButtonAt(obs'.arg) \in disabled) =>
              selectedIndex' = selectedIndex
       /\ (obs'.op = "click" /\ obs'.arg \in disabled) =>
              selectedIndex' = selectedIndex]_vars

\* C5: with N >= 1 registered pairs, N "next" presses in a row from
\* selectedIndex 0 end at selectedIndex 0 and have visited every index of
\* 0..N-1 (N presses, N different values: each exactly once); every press
\* of the row commits at once: the index it reached is selectedIndex, its
\* trigger carries the commit attributes, and one 'selected-changed' was
\* dispatched.
C5_NextWrapsAround ==
    /\ (obs.run # <<>> /\ Len(obs.run) = pairCount) =>
           /\ obs.run[pairCount] = 0
           /\ {obs.run[i] : i \in 1..pairCount} = 0..(pairCount - 1)
    /\ (obs.run # <<>>) =>
           /\ obs.run[Len(obs.run)] = selectedIndex
           /\ ButtonAt(selectedIndex) # 0
           /\ Committed(ButtonAt(selectedIndex))
           /\ obs.notified = 1

\* C5 witness: a full row of "next" presses over the largest registry.
C5_Witness ==
    /\ pairCount = MaxTabs
    /\ Len(obs.run) = pairCount
    /\ selectedIndex = 0

\* C6, as stated: pressed on a registered trigger, End sets selectedIndex to
\* N-1 and Home sets it to 0; the newly selected trigger then has the commit
\* attributes and focus, and the trigger selected before the press has none
\* of them.
C6_HomeEnd_AsStated ==
    [][(/\ obs'.op = "key" /\ obs'.key \in {"Home", "End"}
        /\ focus # 0 /\ Registered(focus)) =>
           /\ selectedIndex' = (IF obs'.key = "End" THEN pairCount - 1 ELSE 0)
           /\ CommittedIn(btn', ButtonAt(selectedIndex'))
           /\ focus' = ButtonAt(selectedIndex')
           /\ ButtonAt(selectedIndex) # 0 =>
                  UncommittedIn(btn', focus', ButtonAt(selectedIndex))]_vars

\* C6, amended: as above, the trigger selected before the press having none
\* of the commit attributes when it is another trigger than the new one.
C6_HomeEnd ==
    [][(/\ obs'.op = "key" /\ obs'.key \in {"Home", "End"}
        /\ focus # 0 /\ Registered(focus)) =>
           /\ selectedIndex' = (IF obs'.key = "End" THEN pairCount - 1 ELSE 0)
           /\ CommittedIn(btn', ButtonAt(selectedIndex'))
           /\ focus' = ButtonAt(selectedIndex')
           /\ (ButtonAt(selectedIndex) # 0 /\ selectedIndex # selectedIndex') =>
                  UncommittedIn(btn', focus', ButtonAt(selectedIndex))]_vars

\* C6 witness: End was pressed on the largest registry, its last trigger is
\* selected and focused and its first trigger, selected before, is not.
C6_Witness ==
    /\ obs.op = "key" /\ obs.key = "End"
    /\ pairCount = MaxTabs
    /\ selectedIndex = pairCount - 1
    /\ Committed(ButtonAt(selectedIndex))
    /\ focus = ButtonAt(selectedIndex)
    /\ btn[ButtonAt(0)].ariaSelected = "false"

\* C7: a key event delivered to a registered trigger has its default action
\* prevented if and only if the key is a recognised one.
C7_PreventDefaultOnlyRecognised ==
    [][(obs'.op = "key" /\ focus # 0 /\ Registered(focus)) =>
           ((obs'.keydownPrevented \/ obs'.keyupPrevented)
                <=> obs'.key \in RecognisedKeys)]_vars

\* C8: after a registry rebuild every registered trigger holds exactly one
\* click, one keyup and one keydown listener of the controller, and no
\* element outside the registry holds a listener or id/role/aria wiring.
C8_RebuildLeavesNoLeftovers ==
    (obs.op = "slotchange" /\ ~obs.threw) =>
        /\ \A b \in Buttons :
              IF Registered(b)
              THEN Len(btn[b].click) = 1 /\ btn[b].keyup = 1 /\ btn[b].keydown = 1
              ELSE /\ btn[b].click = <<>> /\ btn[b].keyup = 0 /\ btn[b].keydown = 0
                   /\ btn[b].id = NoAttr /\ btn[b].role = "none"
                   /\ btn[b].ariaControls = NoAttr
        /\ \A p \in Panels :
              ~RegisteredPanel(p) =>
                  pnl[p].id = NoAttr /\ pnl[p].role = "none"
                  /\ pnl[p].ariaLabelledby = NoAttr

\* C9: a rebuild with different numbers of tab and panel children warns,
\* does not throw and registers min(#tabs, #panels) entries.
C9_MismatchFailsSoftly ==
    (obs.op = "slotchange" /\ Cardinality(tabs) # Cardinality(panels)) =>
        /\ obs.warned
        /\ ~obs.threw
        /\ Len(store) = IF Cardinality(tabs) <= Cardinality(panels)
                        THEN Cardinality(tabs) ELSE Cardinality(panels)

\* C10: the first registry build moves focus to no trigger; every later
\* commit that succeeds (an assignment, a click or a recognised key reaching
\* a registered index) moves focus to the newly selected trigger and
\* dispatches one 'selected-changed'.
C10_FocusOnlyAfterFirstBuild ==
    [][/\ (~hasStore /\ hasStore') => focus' = focus
       /\ (/\ obs'.op \in {"assign", "click", "key"}
           /\ obs'.notified >= 1
           /\ ButtonAt(selectedIndex') # 0) =>
              /\ focus' = ButtonAt(selectedIndex')
              /\ obs'.notified = 1]_vars


(***************************************************************************)
(* What the claims about the select speak about.                           *)
(***************************************************************************)

ArrowKeys == {"ArrowUp", "ArrowDown"}

\* The indices of the options that are not disabled.
EnabledIndices == {j \in 0..(Len(formElements) - 1) : ~formElements[j + 1].disabled}

\* C11: with the overlay closed and the select not disabled, an ArrowUp or
\* ArrowDown key in mode 'mac' opens the overlay and leaves checkedIndex as
\* it was; in mode 'windows/linux' it leaves the overlay closed, and
\* activeIndex and focus as they were.
C11_ArrowKeyPerMode ==
    [][(seen'.op = "key" /\ seen'.key \in ArrowKeys /\ ~opened /\ ~ctrlDisabled) =>
           IF interactionMode = "mac"
           THEN opened' /\ checkedIndex' = checkedIndex
           ELSE /\ ~opened'
                /\ activeIndex' = activeIndex
                /\ activeElement' = activeElement]_vars

\* C11 witness: the key has opened the overlay in mode 'mac' with an option
\* checked.
C11_Witness ==
    /\ seen.op = "key" /\ seen.key = "ArrowDown"
    /\ interactionMode = "mac"
    /\ opened
    /\ checkedIndex # Unset

C13_ShowSeedsActiveIndex ==
    [][/\ (~opened /\ opened') =>
              activeIndex' = (IF checkedIndex' # Unset THEN checkedIndex' ELSE 0)
       /\ (activeIndex' # activeIndex) => (~opened /\ opened')]_vars

\* C14: between the first update and the disconnection, when the overlay
\* goes from closed to open focus is on the listbox
\* node afterwards, and when it goes from open to closed focus is on the
\* invoker afterwards.
C14_FocusFollowsOverlay ==
    [][/\ (~opened /\ opened') => activeElement' = "listbox"
       /\ (opened /\ ~opened') => activeElement' = "invoker"]_vars

\* C14 witness: the overlay was opened and closed again, focus is back on
\* the invoker.
C14_Witness ==
    /\ seen.op \in {"toggle", "click"}
    /\ ~opened
    /\ activeElement = "invoker"

\* The content of option el as the invoker is to show it.
ContentOf(el) ==
    IF el = 0 THEN EmptyContent
    ELSE [kind |-> IF formElements[el].labelNodes > 0 THEN "nodes" ELSE "text",
          of |-> el]

\* C15: after every change of checkedIndex the invoker's selectedElement is
\* the option at checkedIndex and the invoker shows that option's content;
\* after any step that leaves no option checked the invoker shows nothing.
C15_InvokerMirrorsChecked ==
    [][/\ (checkedIndex' # checkedIndex) =>
              /\ invokerNode'.selectedElement = ElementAt(checkedIndex')
              /\ invokerNode'.content = ContentOf(ElementAt(checkedIndex'))
       /\ (checkedIndex' = Unset) => invokerNode'.content = EmptyContent]_vars

\* C15 witness: a commit moved checkedIndex to the last of MaxOptions
\* options, which has child elements, and the invoker shows their clones.
C15_Witness ==
    /\ seen.op \in {"checked", "key"}
    /\ Len(formElements) = MaxOptions
    /\ checkedIndex = MaxOptions - 1
    /\ invokerNode.content = [kind |-> "nodes", of |-> MaxOptions]

\* C16: from the first update on, invoker.disabled is the select's disabled
\* and invoker.readOnly its readOnly after every step; the select's
\* disabled and readOnly change only by assignments to them.
C16_InvokerMirrorsDisabled ==
    [][/\ (lifecycle' # "connected") =>
              /\ invokerNode'.disabled = ctrlDisabled'
              /\ invokerNode'.readOnly = readOnly'
       /\ (ctrlDisabled' # ctrlDisabled) => seen'.op = "disabled"
       /\ (readOnly' # readOnly) => seen'.op = "readOnly"]_vars

\* C16 witness: after the first update the select was made read-only and
\* not disabled, and the invoker is so too.
C16_Witness ==
    /\ lifecycle = "updated"
    /\ seen.op = "readOnly"
    /\ readOnly /\ ~ctrlDisabled
    /\ invokerNode.readOnly /\ ~invokerNode.disabled

\* C17: with the invoker or the overlay controller missing, the first
\* update, a change of disabled, the disconnection and the invoker sync
\* complete without an uncaught exception.
C17_MissingCollaboratorSkipped ==
    (seen.op \in {"firstUpdated", "disabled", "disconnected", "checked", "unchecked"})
        => ~seen.threw

\* C18: once the registry exists, after every assignment, click, key press
\* and rebuild a tab child carries selected, aria-selected="true" or
\* tabindex="0" only if it is the registered trigger at selectedIndex, that
\* trigger, when there is one, carries all three, and every other registered trigger has
\* tabindex="-1" and aria-selected="false".
C18_AttributesDerivedFromIndex ==
    (hasStore /\ obs.op \in {"assign", "click", "key", "slotchange"}) =>
        /\ \A b \in tabs :
              (\/ btn[b].selected # "none"
               \/ btn[b].ariaSelected = "true"
               \/ btn[b].tabindex = "0") => b = ButtonAt(selectedIndex)
        /\ ButtonAt(selectedIndex) # 0 => Committed(ButtonAt(selectedIndex))
        /\ \A b \in tabs :
              (Registered(b) /\ b # ButtonAt(selectedIndex)) =>
                  btn[b].tabindex = "-1" /\ btn[b].ariaSelected = "false"

\* C19: after a rebuild with as many tab children as panel children, entry
\* i pairs the i-th tab with the i-th panel, the tab's aria-controls is its
\* panel's id and the panel's aria-labelledby is its tab's id, both there,
\* and every entry that is not at selectedIndex has its tab and its panel
\* unselected.
C19_LinkageAfterRebuild ==
    (obs.op = "slotchange" /\ Cardinality(tabs) = Cardinality(panels)) =>
        /\ Len(store) = Cardinality(tabs)
        /\ \A i \in 1..Len(store) :
              LET b == store[i].button
                  p == store[i].panel
              IN /\ b = InDocumentOrder(tabs)[i]
                 /\ p = InDocumentOrder(panels)[i]
                 /\ btn[b].id # NoAttr /\ pnl[p].id # NoAttr
                 /\ btn[b].ariaControls = pnl[p].id
                 /\ pnl[p].ariaLabelledby = btn[b].id
                 /\ (i - 1 # selectedIndex) =>
                        /\ btn[b].selected = "none"
                        /\ btn[b].ariaSelected = "false"
                        /\ btn[b].tabindex = "-1"
                        /\ pnl[p].selected = "none"

\* C19 witness: a rebuild registered MaxTabs pairs, the first one selected.
C19_Witness ==
    /\ obs.op = "slotchange"
    /\ Cardinality(tabs) = MaxTabs /\ Cardinality(panels) = MaxTabs
    /\ Len(store) = MaxTabs
    /\ selectedIndex = 0
    /\ Committed(ButtonAt(0))

\* C20: no two entries of the registry have the same uid.
C20_UidsDistinct ==
    \A i \in 1..Len(store), j \in 1..Len(store) :
        i # j => store[i].uid # store[j].uid


\* C21: whenever a commit on a valid registry of at least one pair has
\* dispatched 'selected-changed', the attributes
\* reflect the new selectedIndex at that moment: the trigger registered at
\* selectedIndex carries the commit attributes, its panel carries selected,
\* and no other tab or panel child carries selected. (The dispatch is the
\* last effect of the setter on the elements, so the attributes at the
\* dispatch are those the step ends with.)
C21_NotifiedAfterSync ==
    (/\ obs.op \in {"assign", "click", "key"} /\ obs.notified > 0
     /\ ValidRegistry /\ Len(store) >= 1) =>
        /\ ButtonAt(selectedIndex) # 0
        /\ Committed(ButtonAt(selectedIndex))
        /\ PanelAt(selectedIndex) # 0
        /\ pnl[PanelAt(selectedIndex)].selected # "none"
        /\ \A b \in tabs : b # ButtonAt(selectedIndex) => btn[b].selected = "none"
        /\ \A p \in panels : p # PanelAt(selectedIndex) => pnl[p].selected = "none"


\* C22: while the select is disabled, a click on the invoker and an
\* ArrowUp or ArrowDown keyup leave opened and checkedIndex as they were, in
\* either interaction mode.
C22_DisabledBlocksInput ==
    [][(/\ ctrlDisabled
        /\ \/ seen'.op = "click"
           \/ seen'.op = "key" /\ seen'.key \in ArrowKeys) =>
           /\ opened' = opened
           /\ checkedIndex' = checkedIndex]_vars

\* C22 witness: ArrowDown came to a disabled, closed select in mode
\* 'windows/linux' whose checked option has an enabled option after it, and
\* the first option is still the checked one.
C22_Witness ==
    /\ seen.op = "key" /\ seen.key = "ArrowDown"
    /\ ctrlDisabled
    /\ ~opened
    /\ interactionMode = "windows/linux"
    /\ checkedIndex = 0
    /\ \E j \in EnabledIndices : j > checkedIndex

\* C23: while the select is readOnly, a click on the invoker and an ArrowUp
\* or ArrowDown keyup with the overlay closed do not open the overlay and
\* leave checkedIndex as it was, in either interaction mode.
C23_ReadOnlyBlocksInput ==
    [][(/\ readOnly
        /\ ~opened
        /\ \/ seen'.op = "click"
           \/ seen'.op = "key" /\ seen'.key \in ArrowKeys) =>
           /\ ~opened'
           /\ checkedIndex' = checkedIndex]_vars

\* C24: once disconnectedCallback has run, none of the listeners of the
\* setup is attached: 'show' and 'hide' on the overlay controller, 'keydown'
\* on the scroll target, 'click' and 'blur' on the invoker.
C24_DisconnectRemovesListeners ==
    (lifecycle = "disconnected" /\ ~seen.threw) =>
        /\ overlayCtrl.show = 0
        /\ overlayCtrl.hide = 0
        /\ overlayCtrl.keydown = 0
        /\ invokerNode.click = 0
        /\ invokerNode.blur = 0

====
